---------------------------- MODULE Spec2Model ----------------------------
(***************************************************************************)
(* The PMKB normalizer (scripts/pmkb2db.py) and the report-side lookup     *)
(* that reads its SQLite output (app/report.py).                           *)
(*                                                                         *)
(* A text cell is a sequence of one-character strings, so that splitting,  *)
(* stripping and joining are computed character by character as Python and *)
(* pandas compute them.  A spreadsheet cell is a record: either NaN (an    *)
(* empty Excel cell as pandas reads it) or a text.                         *)
(***************************************************************************)
EXTENDS Integers, Sequences, FiniteSets, TLC

VARIABLES
    xlsx,       \* the 'Interpretations' sheet of pmkb.xlsx: a sequence of rows
    args,       \* the parsed command line (kwargs of main)
    pc,         \* the statement of main that runs next
    pmkb_df,    \* main's pmkb_df after clean_pmkb_df (also 'interpretations')
    entries,    \* main's entries after make_entries
    files,      \* the four flat output files
    db,         \* the SQLite file: its two tables
    report      \* what one report-side lookup read from db and returned

vars == <<xlsx, args, pc, pmkb_df, entries, files, db, report>>

----------------------------------------------------------------------------
(* Characters and Python's str methods *)

Upper == {"A", "B", "C", "D", "E", "F", "G", "H", "I", "J", "K", "L", "M",
          "N", "O", "P", "Q", "R", "S", "T", "U", "V", "W", "X", "Y", "Z"}

\* what \s matches and what str.strip() removes
Whitespace == {" ", "\t", "\n"}

RECURSIVE lstrip(_)
lstrip(s) ==
    IF s = <<>> THEN s
    ELSE IF Head(s) \in Whitespace THEN lstrip(Tail(s)) ELSE s

RECURSIVE rstrip(_)
rstrip(s) ==
    IF s = <<>> THEN s
    ELSE IF s[Len(s)] \in Whitespace THEN rstrip(SubSeq(s, 1, Len(s) - 1)) ELSE s

\* str.strip()
strip(s) == rstrip(lstrip(s))

\* str.split(','): every comma separates, empty pieces are kept
RECURSIVE split_comma(_)
split_comma(s) ==
    IF \E i \in 1..Len(s) : s[i] = ","
    THEN LET c == CHOOSE i \in 1..Len(s) :
                      s[i] = "," /\ \A j \in 1..(i - 1) : s[j] # ","
         IN  <<SubSeq(s, 1, c - 1)>> \o split_comma(SubSeq(s, c + 1, Len(s)))
    ELSE <<s>>

\* The end of the match, at p, of the pattern without its lookahead (\s*,\s*),
\* or 0
re_match_end_no_lookahead(s, p) ==
    LET c == CHOOSE i \in p..(Len(s) + 1) :
                 /\ \A j \in p..(i - 1) : s[j] \in Whitespace
                 /\ (i = Len(s) + 1 \/ s[i] \notin Whitespace)
        e == CHOOSE i \in c..(Len(s) + 1) :
                 /\ \A j \in (c + 1)..i : j <= Len(s) /\ s[j] \in Whitespace
                 /\ (i + 1 > Len(s) \/ s[i + 1] \notin Whitespace)
    IN  IF c <= Len(s) /\ s[c] = "," THEN e ELSE 0

\* The end of the match of \s*,\s*(?=[A-Z]) that starts at p, or 0 when the
\* pattern does not match there: greedy whitespace from p, a comma, greedy
\* whitespace, and then (not consumed) an uppercase letter.
re_match_end(s, p) ==
    LET c == CHOOSE i \in p..(Len(s) + 1) :
                 /\ \A j \in p..(i - 1) : s[j] \in Whitespace
                 /\ (i = Len(s) + 1 \/ s[i] \notin Whitespace)
        e == CHOOSE i \in c..(Len(s) + 1) :
                 /\ \A j \in (c + 1)..i : j <= Len(s) /\ s[j] \in Whitespace
                 /\ (i + 1 > Len(s) \/ s[i + 1] \notin Whitespace)
    IN  IF c <= Len(s) /\ s[c] = "," /\ e + 1 <= Len(s) /\ s[e + 1] \in Upper
        THEN e ELSE 0

\* re.split(r'\s*,\s*(?=[A-Z])', s): cut at the leftmost match, go on after it
RECURSIVE re_split(_)
re_split(s) ==
    IF \E p \in 1..Len(s) : re_match_end(s, p) # 0
    THEN LET p == CHOOSE q \in 1..Len(s) :
                      /\ re_match_end(s, q) # 0
                      /\ \A r \in 1..(q - 1) : re_match_end(s, r) = 0
             e == re_match_end(s, p)
         IN  <<SubSeq(s, 1, p - 1)>> \o re_split(SubSeq(s, e + 1, Len(s)))
    ELSE <<s>>

\* '\n'.join(cells)
RECURSIVE join_newline(_)
join_newline(cells) ==
    IF cells = <<>> THEN <<>>
    ELSE IF Len(cells) = 1 THEN cells[1]
    ELSE cells[1] \o <<"\n">> \o join_newline(Tail(cells))

\* Series.unique(): the distinct values in order of first appearance
RECURSIVE unique(_)
unique(s) ==
    IF s = <<>> THEN <<>>
    ELSE LET init == unique(SubSeq(s, 1, Len(s) - 1))
             last == s[Len(s)]
         IN  IF \E i \in 1..Len(init) : init[i] = last THEN init
             ELSE Append(init, last)

----------------------------------------------------------------------------
(* The texts of the cells used as inputs *)

\* "Lung Cancer, Glioma"
LungCancer_Glioma == <<"L", "u", "n", "g", " ", "C", "a", "n", "c", "e", "r", ",", " ", "G", "l", "i", "o", "m", "a">>

\* "Lung Cancer"
LungCancer == <<"L", "u", "n", "g", " ", "C", "a", "n", "c", "e", "r">>

\* "Melanoma"
Melanoma == <<"M", "e", "l", "a", "n", "o", "m", "a">>

\* "Glioma"
Glioma == <<"G", "l", "i", "o", "m", "a">>

\* "Lung"
Lung == <<"L", "u", "n", "g">>

\* "Skin, Brain"
Skin_Brain == <<"S", "k", "i", "n", ",", " ", "B", "r", "a", "i", "n">>

\* "Colon"
Colon == <<"C", "o", "l", "o", "n">>

\* "Brain"
Brain == <<"B", "r", "a", "i", "n">>

\* "L858R"
L858R == <<"L", "8", "5", "8", "R">>

\* "V600E, V600K"
V600E_V600K == <<"V", "6", "0", "0", "E", ",", " ", "V", "6", "0", "0", "K">>

\* "V600E"
V600E == <<"V", "6", "0", "0", "E">>

\* "V600K"
V600K == <<"V", "6", "0", "0", "K">>

\* "G12D"
G12D == <<"G", "1", "2", "D">>

\* "p.Arg100Gln, p.Arg100His"
pArg100Gln_pArg100His == <<"p", ".", "A", "r", "g", "1", "0", "0", "G", "l", "n", ",", " ", "p", ".", "A", "r", "g", "1", "0", "0", "H", "i", "s">>

\* "p.Arg100Gln"
pArg100Gln == <<"p", ".", "A", "r", "g", "1", "0", "0", "G", "l", "n">>

\* "p.Arg100His"
pArg100His == <<"p", ".", "A", "r", "g", "1", "0", "0", "H", "i", "s">>

\* "exon 19 deletion, in-frame"
exon19deletion_inframe == <<"e", "x", "o", "n", " ", "1", "9", " ", "d", "e", "l", "e", "t", "i", "o", "n", ",", " ", "i", "n", "-", "f", "r", "a", "m", "e">>

\* "A"
CitA == <<"A">>

\* "B"
CitB == <<"B">>

----------------------------------------------------------------------------
(* Cells and pandas frames.  A frame is a sequence of rows, a row a        *)
(* function from column names to values.                                   *)

\* an empty Excel cell as pandas reads it
NaN == [isna |-> TRUE, text |-> <<>>]

\* a cell holding the text s
Text(s) == [isna |-> FALSE, text |-> s]

\* Tier cells: empty, a number, or a text that is no number
NaNTier == [kind |-> "nan", val |-> 0]
IntTier(n) == [kind |-> "int", val |-> n]
TextTier == [kind |-> "text", val |-> 0]

RECURSIVE Flatten(_)
Flatten(seqs) ==
    IF seqs = <<>> THEN <<>> ELSE Head(seqs) \o Flatten(Tail(seqs))

\* frame[[cols]]
select(frame, cols) ==
    [k \in 1..Len(frame) |-> [c \in cols |-> frame[k][c]]]

\* pd.merge(left, right, on = on), how = 'inner': every left row, in order,
\* with every right row that agrees with it on the columns `on`
merge(left, right, on) ==
    Flatten([k \in 1..Len(left) |->
        LET m == SelectSeq(right,
                     LAMBDA r : \A c \in on : r[c] = left[k][c])
        IN  [j \in 1..Len(m) |-> left[k] @@ m[j]]])

----------------------------------------------------------------------------
(* clean_pmkb_df *)

\* a Tier cell with NaN replaced by 0, as a wrong default would have it
fillna_1(t) == IF t.kind = "nan" THEN IntTier(1) ELSE t

\* Series.fillna(0) on one Tier cell
fillna_0(t) == IF t.kind = "nan" THEN IntTier(0) ELSE t

\* a coercion that never raises (errors = 'coerce' then 0)
astype_int_never_raises(t) == FALSE

\* Series.astype(int) raises ValueError on a text that is no number
astype_int_raises(t) == t.kind = "text"

\* Series.astype(int) on one cell
astype_int(t) == t.val

\* the Citation of one row: df.loc[:, 'Citation':].fillna('').astype(str)
\*     .apply(lambda x: '\n'.join(x).strip(), axis=1)
collapse_citations(cells) ==
    strip(join_newline([k \in 1..Len(cells) |->
        IF cells[k].isna THEN <<>> ELSE cells[k].text]))

\* clean_pmkb_df raises (the Tier conversion is its only step that can)
clean_pmkb_df_raises(df) ==
    \E i \in 1..Len(df) : astype_int_raises(fillna_0(df[i].Tier))

\* the frame clean_pmkb_df returns: Citation collapsed, the citation columns
\* dropped, Source = the row's position (zero-based), Tier an integer
clean_pmkb_df(df) ==
    [i \in 1..Len(df) |->
        [Source         |-> i - 1,
         Gene           |-> df[i].Gene,
         TumorType      |-> df[i].TumorType,
         TissueType     |-> df[i].TissueType,
         Variant        |-> df[i].Variant,
         Tier           |-> astype_int(fillna_0(df[i].Tier)),
         Interpretation |-> df[i].Interpretation,
         Citation       |-> collapse_citations(df[i].Citations)]]

----------------------------------------------------------------------------
(* make_entries *)

\* the pattern make_entries splits the Variant cells with
VariantPattern == "\\s*,\\s*(?=[A-Z])"

\* Series.str.split(pat) on one text: a pattern of one character is taken
\* literally, a longer one is a regular expression
str_split(s, pat) == IF pat = "," THEN split_comma(s) ELSE re_split(s)

\* the tokens one cell contributes after .str.split(...), .apply(pd.Series),
\* .stack() and .map(strip): stack() drops the all-NaN row of a NaN cell
tokens(cell, pat) ==
    IF cell.isna THEN <<>>
    ELSE LET parts == str_split(cell.text, pat)
         IN  [k \in 1..Len(parts) |-> strip(parts[k])]

\* df[col].str.split(...).apply(pd.Series, 1).stack().map(strip)
\* .reset_index() with columns ['Source', 'Entry', col]: one row per token,
\* Source the frame's index (equal to its Source column), Entry the token's
\* position
stack(df, col, pat) ==
    Flatten([i \in 1..Len(df) |->
        LET tok == tokens(df[i][col], pat)
        IN  [k \in 1..Len(tok) |->
                (col :> tok[k]) @@ [Source |-> i - 1, Entry |-> k - 1]]])

\* the .str accessor raises AttributeError on a column without any text (an
\* all-NaN column is read as float64)
str_raises(df, col) == \A i \in 1..Len(df) : df[i][col].isna

make_entries_raises(df) ==
    \E col \in {"TumorType", "TissueType", "Variant"} : str_raises(df, col)

\* make_entries with the three token tables aligned by position (joined on
\* Source and Entry) instead of on Source alone
make_entries_zip(df) ==
    LET tier    == select(df, {"Source", "Tier"})
        gene    == select(df, {"Source", "Gene"})
        tumor   == stack(df, "TumorType", ",")
        tissue  == stack(df, "TissueType", ",")
        variant == stack(df, "Variant", VariantPattern)
        df2a    == merge(tumor, tissue, {"Source", "Entry"})
        df2b    == merge(df2a, variant, {"Source", "Entry"})
        df2c    == merge(select(df2b, {"Source", "TumorType", "TissueType", "Variant"}),
                         tier, {"Source"})
    IN  merge(df2c, gene, {"Source"})

make_entries(df) ==
    LET tier    == select(df, {"Source", "Tier"})
        gene    == select(df, {"Source", "Gene"})
        tumor   == stack(df, "TumorType", ",")
        tissue  == stack(df, "TissueType", ",")
        variant == stack(df, "Variant", VariantPattern)
        df2a    == merge(select(tumor, {"Source", "TumorType"}),
                         select(tissue, {"Source", "TissueType"}), {"Source"})
        df2b    == merge(df2a, select(variant, {"Source", "Variant"}), {"Source"})
        df2c    == merge(df2b, tier, {"Source"})
    IN  merge(df2c, gene, {"Source"})

----------------------------------------------------------------------------
(* The save functions *)

\* a file or table nobody has written in this run
Unwritten == [written |-> FALSE, content |-> <<>>]

\* a file after open(output, "w") / to_csv(output) with this content
Written(content) == [written |-> TRUE, content |-> content]

\* the lines save_db_tumor writes: the distinct values of the column it
\* selects from the entries table ("select TissueType from entries;")
save_db_tumor(entries_table) ==
    unique([k \in 1..Len(entries_table) |-> entries_table[k].TissueType])

\* the lines save_db_tissues writes ("select TumorType from entries;")
save_db_tissues(entries_table) ==
    unique([k \in 1..Len(entries_table) |-> entries_table[k].TumorType])

\* Python truth of an optional path argument
None == "None"
Truthy(x) == x # None /\ x # ""

\* the condition of main's tumor-terms step, were it to ask for the flag alone
tumors_wanted_flag_only(a) == Truthy(a.tumors_file)

\* the condition of main's tumor-terms step
tumors_wanted(a) == Truthy(a.tumors_file) /\ Truthy(a.pmkb_db)

\* the condition of main's tissue-terms step
tissues_wanted(a) == Truthy(a.tissues_file) /\ Truthy(a.pmkb_db)

----------------------------------------------------------------------------
(* The lookup of the report side (ir.IRTable.lookup_all_interpretations   *)
(* with pmkb.PMKB): exact match on gene and variant, no tumor or tissue    *)
(* context, the distinct sources resolved to their interpretations,        *)
(* ascending by tier.                                                      *)

\* ids in ascending order of tier, ties in their order of appearance
RECURSIVE sort_by_tier(_, _)
sort_by_tier(ids, tier) ==
    IF ids = <<>> THEN <<>>
    ELSE LET m == CHOOSE k \in 1..Len(ids) :
                      /\ \A j \in 1..Len(ids) : tier[ids[k]] <= tier[ids[j]]
                      /\ \A j \in 1..(k - 1) : tier[ids[j]] > tier[ids[k]]
         IN  <<ids[m]>> \o
             sort_by_tier(SubSeq(ids, 1, m - 1) \o SubSeq(ids, m + 1, Len(ids)), tier)

find_interpretations(gene, variant, Entries, Interpretations) ==
    LET matched == SelectSeq(Entries,
                       LAMBDA e : e.Gene = gene /\ e.Variant = variant)
        ids     == unique([k \in 1..Len(matched) |-> matched[k].Source])
        idset   == {ids[k] : k \in 1..Len(ids)}
        tier    == [id \in idset |->
                       matched[CHOOSE k \in 1..Len(matched) :
                                   /\ matched[k].Source = id
                                   /\ \A j \in 1..(k - 1) : matched[j].Source # id].Tier]
        sorted  == sort_by_tier(ids, tier)
    IN  Flatten([k \in 1..Len(sorted) |->
            LET rows == SelectSeq(Interpretations,
                            LAMBDA r : r.Source = sorted[k])
            IN  [j \in 1..Len(rows) |->
                    [source_id |-> rows[j].Source,
                     text      |-> rows[j].Interpretation,
                     citations |-> rows[j].Citation]]])

----------------------------------------------------------------------------
(* Inputs *)

\* the most rows a sheet has
MaxRows == 2

RawFact(gene, tumor, tissue, variant, tier, text, citations) ==
    [Gene |-> gene, TumorType |-> tumor, TissueType |-> tissue,
     Variant |-> variant, Tier |-> tier, Interpretation |-> text,
     Citations |-> citations]

\* two tumor types, one tissue, one variant; an empty citation cell between
\* two citations
Fact_EGFR_L858R ==
    RawFact("EGFR", Text(LungCancer_Glioma), Text(Lung), Text(L858R),
            IntTier(1), "EGFR L858R", <<Text(CitA), NaN, Text(CitB)>>)

\* one tumor type, two tissues, two variants; no tier
Fact_BRAF_V600 ==
    RawFact("BRAF", Text(Melanoma), Text(Skin_Brain), Text(V600E_V600K),
            NaNTier, "BRAF V600", <<Text(CitA), Text(CitB), NaN>>)

\* no tumor type recorded
Fact_KRAS_G12D ==
    RawFact("KRAS", NaN, Text(Colon), Text(G12D),
            IntTier(2), "KRAS G12D", <<NaN, NaN, NaN>>)

\* two protein changes, each starting with a lowercase "p."
Fact_TP53_Arg100 ==
    RawFact("TP53", Text(Glioma), Text(Brain), Text(pArg100Gln_pArg100His),
            IntTier(1), "TP53 Arg100", <<NaN, Text(CitA), NaN>>)

\* a variant description with a comma inside
Fact_EGFR_exon19 ==
    RawFact("EGFR", Text(LungCancer), Text(Lung), Text(exon19deletion_inframe),
            IntTier(2), "EGFR exon 19", <<Text(CitA), NaN, NaN>>)

\* a tier that is no number
Fact_ALK_bad_tier ==
    RawFact("ALK", Text(LungCancer), Text(Lung), Text(L858R),
            TextTier, "ALK", <<Text(CitB), NaN, NaN>>)

\* neither a tissue nor a variant recorded
Fact_NRAS_gene_only ==
    RawFact("NRAS", Text(Melanoma), NaN, NaN,
            NaNTier, "NRAS", <<NaN, NaN, NaN>>)

RawFacts ==
    {Fact_EGFR_L858R, Fact_BRAF_V600, Fact_KRAS_G12D, Fact_TP53_Arg100,
     Fact_EGFR_exon19, Fact_ALK_bad_tier, Fact_NRAS_gene_only}

\* the sheets main may be given: 1..MaxRows rows
Sheets == UNION {[1..n -> RawFacts] : n \in 1..MaxRows}

\* the command lines parse() may hand to main: every output flag absent
\* (None) or given with a path
ArgSets ==
    [pmkb_db              : {None, "pmkb.db"},
     interpretations_file : {None, "pmkb.interpretations.tsv"},
     entries_file         : {None, "pmkb.entries.csv"},
     tumors_file          : {None, "pmkb.tumor-terms.txt"},
     tissues_file         : {None, "pmkb.tissue-terms.txt"}]

\* the sheet of the run that built the SQLite file main finds
PreviousSheet == <<Fact_BRAF_V600>>

\* the SQLite file as that run left it
PreviousDb ==
    [interpretations |-> clean_pmkb_df(PreviousSheet),
     entries         |-> make_entries(clean_pmkb_df(PreviousSheet)),
     written         |-> FALSE]

\* no lookup has happened
NoReport == [taken |-> FALSE]

\* the gene and the first variant token of the sheet's rows: the sample
\* variants a lookup is made with
Samples(sheet) ==
    {[gene |-> sheet[i].Gene, variant |-> tokens(sheet[i].Variant, VariantPattern)[1]] :
        i \in {j \in 1..Len(sheet) : ~sheet[j].Variant.isna}}

----------------------------------------------------------------------------
(* main, statement by statement, and one concurrent lookup *)

Init ==
    /\ xlsx \in Sheets
    /\ args \in ArgSets
    /\ pc = "clean_pmkb_df"
    /\ pmkb_df = <<>>
    /\ entries = <<>>
    /\ files = [interpretations |-> Unwritten, entries |-> Unwritten,
                tumors |-> Unwritten, tissues |-> Unwritten]
    /\ db = PreviousDb
    /\ report = NoReport

\* pmkb_df = xlsx2df(pmkb_xlsx); pmkb_df = clean_pmkb_df(pmkb_df)
MainCleanPmkbDf ==
    /\ pc = "clean_pmkb_df"
    /\ IF clean_pmkb_df_raises(xlsx)
       THEN pc' = "error" /\ UNCHANGED pmkb_df
       ELSE pc' = "make_entries" /\ pmkb_df' = clean_pmkb_df(xlsx)
    /\ UNCHANGED <<xlsx, args, entries, files, db, report>>

\* entries = make_entries(pmkb_df)
MainMakeEntries ==
    /\ pc = "make_entries"
    /\ IF make_entries_raises(pmkb_df)
       THEN pc' = "error" /\ UNCHANGED entries
       ELSE pc' = "save_interpretations" /\ entries' = make_entries(pmkb_df)
    /\ UNCHANGED <<xlsx, args, pmkb_df, files, db, report>>

\* if interpretations_file: save_interpretations(interpretations, ...)
MainSaveInterpretations ==
    /\ pc = "save_interpretations"
    /\ files' = IF Truthy(args.interpretations_file)
                THEN [files EXCEPT !.interpretations = Written(pmkb_df)]
                ELSE files
    /\ pc' = "save_entries"
    /\ UNCHANGED <<xlsx, args, pmkb_df, entries, db, report>>

\* if entries_file: save_entries(entries, ...)
MainSaveEntries ==
    /\ pc = "save_entries"
    /\ files' = IF Truthy(args.entries_file)
                THEN [files EXCEPT !.entries = Written(entries)]
                ELSE files
    /\ pc' = "save_db"
    /\ UNCHANGED <<xlsx, args, pmkb_df, entries, db, report>>

\* if pmkb_db: save_db(...), up to and including its first to_sql, which
\* replaces the interpretations table and commits
MainSaveDb ==
    /\ pc = "save_db"
    /\ IF Truthy(args.pmkb_db)
       THEN /\ db' = [db EXCEPT !.interpretations = pmkb_df, !.written = TRUE]
            /\ pc' = "save_db_entries"
       ELSE /\ pc' = "save_db_tumor"
            /\ UNCHANGED db
    /\ UNCHANGED <<xlsx, args, pmkb_df, entries, files, report>>

\* save_db's second to_sql, which replaces the entries table and commits
SaveDbEntries ==
    /\ pc = "save_db_entries"
    /\ db' = [db EXCEPT !.entries = entries]
    /\ pc' = "save_db_tumor"
    /\ UNCHANGED <<xlsx, args, pmkb_df, entries, files, report>>

\* if tumors_file and pmkb_db: save_db_tumor(db = pmkb_db, output = tumors_file)
MainSaveDbTumor ==
    /\ pc = "save_db_tumor"
    /\ files' = IF tumors_wanted(args)
                THEN [files EXCEPT !.tumors = Written(save_db_tumor(db.entries))]
                ELSE files
    /\ pc' = "save_db_tissues"
    /\ UNCHANGED <<xlsx, args, pmkb_df, entries, db, report>>

\* if tissues_file and pmkb_db: save_db_tissues(db = pmkb_db, output = tissues_file)
MainSaveDbTissues ==
    /\ pc = "save_db_tissues"
    /\ files' = IF tissues_wanted(args)
                THEN [files EXCEPT !.tissues = Written(save_db_tissues(db.entries))]
                ELSE files
    /\ pc' = "done"
    /\ UNCHANGED <<xlsx, args, pmkb_df, entries, db, report>>

\* A report run looks one sample variant up in the SQLite file, at any moment
\* of the normalizer's run: it reads both tables as they are at that moment.
LookupAllInterpretations ==
    /\ report = NoReport
    /\ \E q \in Samples(xlsx) :
          report' = [taken           |-> TRUE,
                     gene            |-> q.gene,
                     variant         |-> q.variant,
                     interpretations |-> db.interpretations,
                     entries         |-> db.entries,
                     result          |-> find_interpretations(q.gene, q.variant,
                                             db.entries, db.interpretations)]
    /\ UNCHANGED <<xlsx, args, pc, pmkb_df, entries, files, db>>

Next ==
    \/ MainCleanPmkbDf
    \/ MainMakeEntries
    \/ MainSaveInterpretations
    \/ MainSaveEntries
    \/ MainSaveDb
    \/ SaveDbEntries
    \/ MainSaveDbTumor
    \/ MainSaveDbTissues
    \/ LookupAllInterpretations

Spec == Init /\ [][Next]_vars

----------------------------------------------------------------------------
(* Properties *)

\* main has passed entries = make_entries(pmkb_df)
EntriesMade ==
    pc \in {"save_interpretations", "save_entries", "save_db", "save_db_entries",
            "save_db_tumor", "save_db_tissues", "done"}

\* the positions in entries of the rows that carry Source src
EntriesOf(src) == {k \in 1..Len(entries) : entries[k].Source = src}

\* the number of tokens a cell splits into
NTokens(cell, pat) == Len(tokens(cell, pat))

\* C1: for every row of the cleaned table the number of entries carrying its
\* Source is the product of the numbers of tokens of its TumorType, TissueType
\* and Variant cells (a NaN cell has no token), also when the three numbers
\* differ: a cross product, not a positional alignment.
C1_CrossExpansion ==
    EntriesMade =>
        \A i \in 1..Len(pmkb_df) :
            Cardinality(EntriesOf(pmkb_df[i].Source)) =
                NTokens(pmkb_df[i].TumorType, ",")
                    * NTokens(pmkb_df[i].TissueType, ",")
                    * NTokens(pmkb_df[i].Variant, VariantPattern)

\* a row with 1 tumor type, 2 tissues and 2 variants has 4 entries
C1_Witness ==
    /\ EntriesMade
    /\ \E i \in 1..Len(pmkb_df) :
          /\ NTokens(pmkb_df[i].TumorType, ",") = 1
          /\ NTokens(pmkb_df[i].TissueType, ",") = 2
          /\ NTokens(pmkb_df[i].Variant, VariantPattern) = 2
          /\ Cardinality(EntriesOf(pmkb_df[i].Source)) = 4

\* C2: a row whose TumorType, TissueType or Variant cell is empty still has
\* an entry with its Source, the empty field being the empty text.
C2_EmptyFieldKeepsFact ==
    EntriesMade =>
        \A i \in 1..Len(pmkb_df) :
            (pmkb_df[i].TumorType.isna \/ pmkb_df[i].TissueType.isna
                \/ pmkb_df[i].Variant.isna) =>
            \E k \in EntriesOf(pmkb_df[i].Source) :
                /\ pmkb_df[i].TumorType.isna => entries[k].TumorType = <<>>
                /\ pmkb_df[i].TissueType.isna => entries[k].TissueType = <<>>
                /\ pmkb_df[i].Variant.isna => entries[k].Variant = <<>>

\* the Variant values of the entries of Source src, in order, each once
VariantsOf(src) ==
    LET rows == SelectSeq(entries, LAMBDA e : e.Source = src)
    IN  unique([k \in 1..Len(rows) |-> rows[k].Variant])

\* the row has a tumor type and a tissue, so that its variants reach entries
HasEntries(row) == ~row.TumorType.isna /\ ~row.TissueType.isna

\* C3 as stated: "p.Arg100Gln, p.Arg100His" becomes the two tokens
\* "p.Arg100Gln" and "p.Arg100His", and "exon 19 deletion, in-frame" stays one
\* token.
C3_AsStated ==
    EntriesMade =>
        \A i \in 1..Len(pmkb_df) :
            HasEntries(pmkb_df[i]) =>
                /\ pmkb_df[i].Variant = Text(pArg100Gln_pArg100His) =>
                       VariantsOf(pmkb_df[i].Source) = <<pArg100Gln, pArg100His>>
                /\ pmkb_df[i].Variant = Text(exon19deletion_inframe) =>
                       VariantsOf(pmkb_df[i].Source) = <<exon19deletion_inframe>>

\* C3 amended: "p.Arg100Gln, p.Arg100His" stays one token (the letter after
\* its comma is a lowercase p), "exon 19 deletion, in-frame" stays one token,
\* and "V600E, V600K", whose comma is followed by an uppercase letter, becomes
\* the two tokens "V600E" and "V600K".
C3_VariantSplit ==
    EntriesMade =>
        \A i \in 1..Len(pmkb_df) :
            HasEntries(pmkb_df[i]) =>
                /\ pmkb_df[i].Variant = Text(pArg100Gln_pArg100His) =>
                       VariantsOf(pmkb_df[i].Source) = <<pArg100Gln_pArg100His>>
                /\ pmkb_df[i].Variant = Text(exon19deletion_inframe) =>
                       VariantsOf(pmkb_df[i].Source) = <<exon19deletion_inframe>>
                /\ pmkb_df[i].Variant = Text(V600E_V600K) =>
                       VariantsOf(pmkb_df[i].Source) = <<V600E, V600K>>

\* one sheet holds all three cells and each has reached entries
C3_Witness ==
    /\ EntriesMade
    /\ \E i \in 1..Len(pmkb_df) :
          /\ pmkb_df[i].Variant = Text(pArg100Gln_pArg100His)
          /\ VariantsOf(pmkb_df[i].Source) = <<pArg100Gln_pArg100His>>
    /\ \E i \in 1..Len(pmkb_df) :
          /\ pmkb_df[i].Variant = Text(V600E_V600K)
          /\ VariantsOf(pmkb_df[i].Source) = <<V600E, V600K>>

\* the texts of the cells that are neither NaN nor empty, in order
NonEmptyTexts(cells) ==
    LET kept == SelectSeq(cells, LAMBDA c : ~c.isna /\ c.text # <<>>)
    IN  [k \in 1..Len(kept) |-> kept[k].text]

\* C4: the Citation of every cleaned row is the newline-join of its non-empty
\* citation cells, in order, empty cells dropped wherever they are.
C4_CitationDropsEmptyCells ==
    \A i \in 1..Len(pmkb_df) :
        pmkb_df[i].Citation = join_newline(NonEmptyTexts(xlsx[i].Citations))

\* the Tier an entry of this row is to carry: 0 for no Tier, else the number
TierOf(row) == IF row.Tier.kind = "nan" THEN 0 ELSE row.Tier.val

\* C5: every entry carries the Gene of the row of the sheet with its Source
\* and that row's Tier, 0 when the row has none.
C5_GeneTierCopied ==
    EntriesMade =>
        \A k \in 1..Len(entries) :
            /\ entries[k].Source + 1 \in 1..Len(xlsx)
            /\ entries[k].Gene = xlsx[entries[k].Source + 1].Gene
            /\ entries[k].Tier = TierOf(xlsx[entries[k].Source + 1])

\* entries of two rows with different genes, one of them without a Tier
C5_Witness ==
    /\ EntriesMade
    /\ \E k, m \in 1..Len(entries) :
          /\ entries[k].Source # entries[m].Source
          /\ entries[k].Gene # entries[m].Gene
          /\ xlsx[entries[k].Source + 1].Tier.kind = "nan"
          /\ entries[k].Tier = 0
          /\ entries[m].Tier = 1

\* some row of the sheet has a Tier that is no number
HasNonNumericTier == \E i \in 1..Len(xlsx) : xlsx[i].Tier.kind = "text"

\* no output of this run exists: no file written, the SQLite file as found
NothingWritten ==
    /\ \A f \in DOMAIN files : files[f] = Unwritten
    /\ db = PreviousDb

\* C6: with a non-numeric Tier in the sheet the run goes from cleaning to the
\* error and nowhere else, and writes nothing; and whatever the sheet, nothing
\* is written before cleaning and entry expansion are both done.
C6_BadTierFailsBeforeAnyOutput ==
    /\ HasNonNumericTier => pc \in {"clean_pmkb_df", "error"} /\ NothingWritten
    /\ pc \in {"clean_pmkb_df", "make_entries", "error"} => NothingWritten

\* a run that has failed on a non-numeric Tier
C6_Witness == HasNonNumericTier /\ pc = "error" /\ NothingWritten

\* C7: after a run that wrote the SQLite file, the lookup of a row's gene and
\* first variant token returns that row's interpretation.
C7_RoundTrip ==
    (/\ pc = "done"
     /\ db.written
     /\ report # NoReport
     /\ report.interpretations = db.interpretations
     /\ report.entries = db.entries) =>
        \A i \in 1..Len(xlsx) :
            (/\ ~xlsx[i].Variant.isna
             /\ xlsx[i].Gene = report.gene
             /\ tokens(xlsx[i].Variant, VariantPattern)[1] = report.variant) =>
                \E j \in 1..Len(report.result) :
                    /\ report.result[j].source_id = i - 1
                    /\ report.result[j].text = xlsx[i].Interpretation

\* the values of a column of a table, as a set
ColumnValues(table, col) == {table[k][col] : k \in 1..Len(table)}

\* the lines of a file are distinct and are exactly the values
HoldsExactly(file, values) ==
    /\ {file.content[k] : k \in 1..Len(file.content)} = values
    /\ Len(file.content) = Cardinality(values)

\* C8: the tumors file holds the distinct TumorType values of the entries
\* table and the tissues file its distinct TissueType values.
C8_TermFiles ==
    /\ files.tumors.written =>
           HoldsExactly(files.tumors, ColumnValues(db.entries, "TumorType"))
    /\ files.tissues.written =>
           HoldsExactly(files.tissues, ColumnValues(db.entries, "TissueType"))

\* no output without its flag, at any moment of the run
NoFlagNoOutput ==
    /\ files.interpretations.written => Truthy(args.interpretations_file)
    /\ files.entries.written => Truthy(args.entries_file)
    /\ db.written => Truthy(args.pmkb_db)
    /\ files.tumors.written => Truthy(args.tumors_file)
    /\ files.tissues.written => Truthy(args.tissues_file)

\* C9 as stated: each of the five outputs is written by a successful run if
\* and only if its own flag is given, whatever the other flags.
C9_AsStated ==
    /\ NoFlagNoOutput
    /\ pc = "done" =>
          /\ files.interpretations.written <=> Truthy(args.interpretations_file)
          /\ files.entries.written <=> Truthy(args.entries_file)
          /\ db.written <=> Truthy(args.pmkb_db)
          /\ files.tumors.written <=> Truthy(args.tumors_file)
          /\ files.tissues.written <=> Truthy(args.tissues_file)

\* C9 amended: no output is written without its flag; a successful run writes
\* the interpretations file, the entries file and the SQLite file if and only
\* if the flag of each is given, and the tumors (tissues) file if and only if
\* --tumors (--tissues) is given together with --db.
C9_FlagsSelectOutputs ==
    /\ NoFlagNoOutput
    /\ pc = "done" =>
          /\ files.interpretations.written <=> Truthy(args.interpretations_file)
          /\ files.entries.written <=> Truthy(args.entries_file)
          /\ db.written <=> Truthy(args.pmkb_db)
          /\ files.tumors.written <=>
                 (Truthy(args.tumors_file) /\ Truthy(args.pmkb_db))
          /\ files.tissues.written <=>
                 (Truthy(args.tissues_file) /\ Truthy(args.pmkb_db))

\* a successful run with --tumors and without --db: no tumors file
C9_Witness ==
    /\ pc = "done"
    /\ Truthy(args.tumors_file)
    /\ ~Truthy(args.pmkb_db)
    /\ ~files.tumors.written
    /\ files.interpretations.written

\* C10: at every moment of a run over an existing SQLite file, the file holds
\* both tables of the previous run or both tables of this run, so that a lookup
\* reading it at that moment never gets the interpretations of one run with
\* the entries of the other.
C10_OneSnapshotAtAnyMoment ==
    \/ /\ db.interpretations = PreviousDb.interpretations
       /\ db.entries = PreviousDb.entries
    \/ /\ EntriesMade
       /\ db.interpretations = pmkb_df
       /\ db.entries = entries

=============================================================================
